---- MODULE Spec2Model ----
(***************************************************************************)
(* Model of the hybrid retrieval engine DrugFoodRAG                        *)
(* (src/app/rag/vector_store.py): the record store interactions_df, the    *)
(* persistent ChromaDB collection, build_index, search and the derived     *)
(* query operations built on search.                                       *)
(*                                                                         *)
(* Strings are sequences of one-character strings, so that lower(),        *)
(* split() and the substring tests are computed, not assumed.              *)
(* Distances and relevance scores are scaled by 20 (the code divides the   *)
(* keyword score by 20): distance 0.9 is 18, distance 1.0 is 20.           *)
(*                                                                         *)
(* Four specifications share the variables:                                *)
(*   Spec            the calls of a constructed engine, one at a time      *)
(*   LifecycleSpec   the constructor, then successive build_index calls    *)
(*   ConcurrentSpec  build_index and search of two callers, interleaved    *)
(*                   at their collaborator calls                           *)
(*   WatchlistSpec   build_index and get_interactions_for_drugs over       *)
(*                   record stores of more than 20 records                 *)
(***************************************************************************)
EXTENDS Integers, Sequences, FiniteSets, TLC

VARIABLES interactions_df, collection, pc, last

vars == <<interactions_df, collection, pc, last>>

\* last while no call is in progress (pc = "idle")
NoCall == [op |-> "none"]

(* ---------------------------- bounds ----------------------------------- *)

\* largest number of rows of the record store
MaxRecords == 2
\* largest n_results passed to search directly
MaxN == 2

(* ------------------------ optional values ------------------------------ *)

\* Python's None / Optional[...]: an absent value is the empty tuple
None == <<>>
Some(v) == <<v>>
IsNone(o) == Len(o) = 0

Range(s) == {s[i] : i \in DOMAIN s}
Min(a, b) == IF a < b THEN a ELSE b

(* ---------------------------- strings ---------------------------------- *)

\* str.lower() on one character
LowerChar(c) ==
    CASE c = "A" -> "a"
      [] c = "B" -> "b"
      [] c = "C" -> "c"
      [] c = "G" -> "g"
      [] c = "J" -> "j"
      [] OTHER -> c

\* str.lower()
Lower(s) == [i \in DOMAIN s |-> LowerChar(s[i])]

\* str.split(): split on runs of whitespace, no empty tokens
RECURSIVE SplitFrom(_, _, _)
SplitFrom(s, i, cur) ==
    IF i > Len(s)
    THEN IF cur = <<>> THEN <<>> ELSE <<cur>>
    ELSE IF s[i] = " "
         THEN (IF cur = <<>> THEN <<>> ELSE <<cur>>) \o SplitFrom(s, i + 1, <<>>)
         ELSE SplitFrom(s, i + 1, Append(cur, s[i]))

Split(s) == SplitFrom(s, 1, <<>>)

\* Python's `sub in s` on strings
Contains(sub, s) ==
    \E i \in 0..(Len(s) - Len(sub)) : SubSeq(s, i + 1, i + Len(sub)) = sub

(* --------------------------- risk levels ------------------------------- *)

\* RISK_LEVELS[level]['priority']
RISK_LEVELS ==
    [danger |-> 1, warning |-> 2, caution |-> 3, safe |-> 4]

\* a lookup that falls back to the last level
RiskPriority_FallbackSafe(level) ==
    IF level \in DOMAIN RISK_LEVELS THEN RISK_LEVELS[level] ELSE RISK_LEVELS["safe"]

\* RISK_LEVELS.get(level, RISK_LEVELS['caution'])['priority']
RiskPriority(level) ==
    IF level \in DOMAIN RISK_LEVELS THEN RISK_LEVELS[level] ELSE RISK_LEVELS["caution"]

\* the level whose emoji, label and colour
\* RISK_LEVELS.get(level, RISK_LEVELS['caution']) selects
RiskLabel(level) ==
    IF level \in DOMAIN RISK_LEVELS THEN level ELSE "caution"

(* --------------------------- the data ---------------------------------- *)

DrugA == <<"a">>
DrugB == <<"b">>
FoodG == <<"g">>
FoodGj == <<"G", "j">>
FoodC == <<"C", "a">>

\* rows of drug_food_interactions.csv (the columns search and build read)
Row(d, f, r) == [drug_name |-> d, food_name |-> f, risk_level |-> r]

Rows ==
    { Row(DrugA, FoodG, "safe"),
      Row(DrugA, FoodC, "danger"),
      Row(DrugB, FoodG, "safe"),
      Row(DrugA, FoodGj, "unknown") }

SeqsUpTo(S, n) == UNION {[1..k -> S] : k \in 0..n}

\* the record stores pd.read_csv can deliver (row order is kept)
Stores == SeqsUpTo(Rows, MaxRecords)

\* the record stores an earlier run may have built the persisted index from
PersistedStores ==
    { <<>>,
      <<Row(DrugA, FoodC, "danger")>>,
      <<Row(DrugB, FoodG, "safe"), Row(DrugA, FoodG, "safe")>> }

(* ----------------------- document projector ---------------------------- *)

\* _create_metadata(row), with the id f"interaction_{idx}" of build_index
\* (idx is the 0-based row index)
CreateMetadata(row, idx) ==
    [drug_name |-> row.drug_name,
     food_name |-> row.food_name,
     risk_level |-> row.risk_level,
     id |-> idx,
     risk_priority |-> RiskPriority(row.risk_level)]

\* a projection whose loop stops one row early
Project_MissLast(df) ==
    [i \in 1..(Len(df) - 1) |-> CreateMetadata(df[i], i - 1)]

\* the documents build_index projects from the record store
Project(df) == [i \in DOMAIN df |-> CreateMetadata(df[i], i - 1)]

\* the row fields _create_document writes into the text, in its order
DocumentFields ==
    <<"drug_name", "drug_ingredient", "drug_category", "food_name",
      "food_category", "risk_level", "interaction_mechanism",
      "clinical_effect", "recommendation", "alternative_food", "source">>

\* the keys of the map _create_metadata returns
MetadataKeys ==
    {"drug_name", "drug_ingredient", "drug_category", "food_name",
     "food_category", "risk_level", "risk_priority", "recommendation",
     "alternative_food", "source"}

\* the metadata keys _format_interaction_result reads to render a result
FormattedKeys ==
    {"drug_name", "food_name", "interaction_mechanism", "clinical_effect",
     "recommendation", "alternative_food"}

(* ------------------------- the vector index ---------------------------- *)

\* the persistent collection: exists is FALSE once delete_collection has
\* dropped it and no create_collection has replaced it (self.collection is
\* then a handle to a deleted collection and every call on it raises)
Collection(e, d) == [exists |-> e, docs |-> d]

EmptyCollection == Collection(TRUE, <<>>)
DroppedCollection == Collection(FALSE, <<>>)

\* distances the index can report for a hit (0.5 and 1.5)
VecDists == {10, 30}

\* the `where` expression search builds, evaluated by the index on a
\* document's metadata: equality or $in per filter, conjoined by $and
WhereMatches(doc, drug_filter, food_filter, risk_filter) ==
    /\ (~IsNone(drug_filter) /\ Len(drug_filter[1]) > 0)
          => doc.drug_name \in Range(drug_filter[1])
    /\ (~IsNone(food_filter) /\ Len(food_filter[1]) > 0)
          => doc.food_name = food_filter[1]
    /\ (~IsNone(risk_filter) /\ Len(risk_filter[1]) > 0)
          => doc.risk_level \in Range(risk_filter[1])

\* collection.query(n_results=k): the k nearest of the documents D, in
\* rank order; which documents are nearest is decided by the embedding
Rankings(D, k) ==
    LET m == Min(k, Cardinality(D))
    IN {h \in [1..m -> [doc : D, distance : VecDists]] :
          /\ \A i, j \in 1..m : i < j => /\ h[i].doc # h[j].doc
                                         /\ h[i].distance <= h[j].distance}

\* what the two collection.query calls of one search can do:
\*   "ok"    the filtered query returns hits
\*   "retry" the filtered query raises, the unfiltered retry returns hits
\*   "fail"  both raise
VectorOutcomes(coll, n_results, drug_filter, food_filter, risk_filter) ==
    IF ~coll.exists
    THEN {[kind |-> "fail", hits |-> <<>>]}
    ELSE LET all == Range(coll.docs)
             matching == {d \in all :
                            WhereMatches(d, drug_filter, food_filter, risk_filter)}
         IN {[kind |-> "ok", hits |-> h] : h \in Rankings(matching, n_results * 2)}
            \cup {[kind |-> "retry", hits |-> h] : h \in Rankings(all, n_results * 2)}
            \cup {[kind |-> "fail", hits |-> <<>>]}

(* ------------------------------ search --------------------------------- *)

\* the structural filters of the keyword stage (isin / str.contains / isin)
RowPasses(row, drug_filter, food_filter, risk_filter) ==
    /\ (~IsNone(drug_filter) /\ Len(drug_filter[1]) > 0)
          => row.drug_name \in Range(drug_filter[1])
    /\ (~IsNone(food_filter) /\ Len(food_filter[1]) > 0)
          => Contains(Lower(food_filter[1]), Lower(row.food_name))
    /\ (~IsNone(risk_filter) /\ Len(risk_filter[1]) > 0)
          => row.risk_level \in Range(risk_filter[1])

\* a score that counts a term once however many fields it matches
Score_OncePerTerm(row, terms) ==
    10 * Cardinality({i \in DOMAIN terms :
                        \/ Contains(terms[i], Lower(row.drug_name))
                        \/ Contains(terms[i], Lower(row.food_name))})

\* score of one row: +10 per (term, field) substring match
Score(row, terms) ==
    10 * ( Cardinality({i \in DOMAIN terms :
                          Contains(terms[i], Lower(row.drug_name))})
         + Cardinality({i \in DOMAIN terms :
                          Contains(terms[i], Lower(row.food_name))}) )

\* one entry of keyword_results
KeywordResult(row, score) ==
    [drug_name |-> row.drug_name,
     food_name |-> row.food_name,
     risk_level |-> row.risk_level,
     risk_priority |-> RiskPriority(row.risk_level),
     distance |-> 20 - score,
     relevance_score |-> score,
     stage |-> "keyword",
     risk_label |-> RiskLabel(row.risk_level)]

\* stage 1 of search: keyword matching over interactions_df
KeywordResults(df, query, drug_filter, food_filter, risk_filter) ==
    IF IsNone(df)
    THEN <<>>
    ELSE LET terms == Split(Lower(query))
             hit(row) == /\ RowPasses(row, drug_filter, food_filter, risk_filter)
                         /\ Score(row, terms) > 0
             rows == SelectSeq(df[1], hit)
         IN [i \in DOMAIN rows |-> KeywordResult(rows[i], Score(rows[i], terms))]

\* a keyword stage that filters interactions_df itself
StoreAfterSearch_InPlace(df, drug_filter, food_filter, risk_filter) ==
    IF IsNone(df)
    THEN df
    ELSE Some(SelectSeq(df[1],
                        LAMBDA row : RowPasses(row, drug_filter, food_filter,
                                               risk_filter)))

\* `df = self.interactions_df.copy()`: the filters of the keyword stage narrow
\* a copy, so self.interactions_df is after search what it was before
StoreAfterSearch(df, drug_filter, food_filter, risk_filter) == df

\* one entry of vector_results
VectorResult(hit) ==
    [drug_name |-> hit.doc.drug_name,
     food_name |-> hit.doc.food_name,
     risk_level |-> hit.doc.risk_level,
     risk_priority |-> hit.doc.risk_priority,
     distance |-> hit.distance,
     relevance_score |-> IF hit.distance < 20 THEN 20 - hit.distance ELSE 0,
     stage |-> "vector",
     risk_label |-> RiskLabel(hit.doc.risk_level)]

\* lexicographic order on the two-component sort keys
KeyLess(a, b) == a[1] < b[1] \/ (a[1] = b[1] /\ a[2] < b[2])

\* a sort that reverses the input order of equal keys
Sorted_Unstable(s, keys) ==
    LET n == Len(s)
        before(j, i) == \/ KeyLess(keys[j], keys[i])
                        \/ (keys[j] = keys[i] /\ j > i)
        rank(i) == Cardinality({j \in 1..n : before(j, i)}) + 1
    IN [p \in 1..n |-> s[CHOOSE i \in 1..n : rank(i) = p]]

\* list.sort(key=...), keys[i] being the key of s[i]: stable, so the result
\* is the one permutation in which equal keys keep their input order
Sorted(s, keys) ==
    LET n == Len(s)
        before(j, i) == \/ KeyLess(keys[j], keys[i])
                        \/ (keys[j] = keys[i] /\ j < i)
        rank(i) == Cardinality({j \in 1..n : before(j, i)}) + 1
    IN [p \in 1..n |-> s[CHOOSE i \in 1..n : rank(i) = p]]

\* a short-circuit sort that ranks by relevance before risk
KeywordKey_RelevanceFirst(x) == <<0 - x.relevance_score, x.risk_priority>>

\* sort key of the short-circuit return
KeywordKey(x) == <<x.risk_priority, 0 - x.relevance_score>>

\* a fusion sort that ranks by distance before risk
FusionKey_DistanceFirst(x) == <<x.distance, x.risk_priority>>

\* sort key of the fusion return
FusionKey(x) == <<x.risk_priority, x.distance>>

\* the (drug_name, food_name) key of the seen-set
PairKey(x) == <<x.drug_name, x.food_name>>

\* the seen-set loop: keep the first result of every pair
RECURSIVE DedupFrom(_, _, _)
DedupFrom(s, i, seen) ==
    IF i > Len(s)
    THEN <<>>
    ELSE IF PairKey(s[i]) \in seen
         THEN DedupFrom(s, i + 1, seen)
         ELSE <<s[i]>> \o DedupFrom(s, i + 1, seen \cup {PairKey(s[i])})

Dedup(s) == DedupFrom(s, 1, {})

\* a return without the [:n_results] slice
Take_All(s, n) == s

\* s[:n] for n >= 0
Take(s, n) == SubSeq(s, 1, Min(n, Len(s)))

\* the list search returns when the keyword hits suffice
ShortCircuit(kw, n_results) ==
    Take(Sorted(kw, [i \in DOMAIN kw |-> KeywordKey(kw[i])]), n_results)

\* a fusion whose seen-set loop runs over vector_results + keyword_results
Fusion_VectorFirst(kw, vec, n_results) ==
    LET combined == Dedup(vec \o kw)
    IN Take(Sorted(combined, [i \in DOMAIN combined |-> FusionKey(combined[i])]),
            n_results)

\* the list search returns after the vector stage
Fusion(kw, vec, n_results) ==
    LET combined == Dedup(kw \o vec)
    IN Take(Sorted(combined, [i \in DOMAIN combined |-> FusionKey(combined[i])]),
            n_results)

\* a short-circuit test that needs strictly more hits than n_results
KeywordSuffices_Strict(kw, n_results) == Len(kw) > n_results

\* `if len(keyword_results) >= n_results`
KeywordSuffices(kw, n_results) == Len(kw) >= n_results

\* a search that always makes the second, unfiltered query
QueriesIssued_AlwaysRetry(kind) == 2

\* the collection.query calls of the vector stage: the filtered one, and
\* the unfiltered one of the except branch when the first raised
QueriesIssued(kind) == IF kind = "ok" THEN 1 ELSE 2

\* DrugFoodRAG.search; env is what the index does when it is queried.
\* raised: an exception leaves search; queries: collection.query calls made
Search(df, query, n_results, drug_filter, food_filter, risk_filter, env) ==
    LET kw == KeywordResults(df, query, drug_filter, food_filter, risk_filter)
    IN IF KeywordSuffices(kw, n_results)
       THEN [raised |-> FALSE, result |-> ShortCircuit(kw, n_results), queries |-> 0]
       ELSE IF env.kind = "fail"
            THEN [raised |-> TRUE, result |-> <<>>,
                  queries |-> QueriesIssued(env.kind)]
            ELSE [raised |-> FALSE,
                  result |-> Fusion(kw,
                                    [i \in DOMAIN env.hits |-> VectorResult(env.hits[i])],
                                    n_results),
                  queries |-> QueriesIssued(env.kind)]

(* ----------------------- derived query layer --------------------------- *)

\* `for result in results: if <test>: return result`, idx being the
\* positions where the test holds: the first such result, or None
FirstAt(s, idx) ==
    IF idx = {} THEN None
    ELSE Some(s[CHOOSE i \in idx : \A j \in idx : i <= j])

\* the two loops of search_by_drug_and_food over the results of search and
\* its final `results[0] if results else None`
PickResult(results, food_name) ==
    LET exact == {i \in DOMAIN results :
                    Lower(results[i].food_name) = Lower(food_name)}
        partial == {i \in DOMAIN results :
                      Contains(Lower(food_name), Lower(results[i].food_name))}
    IN IF exact # {}
       THEN FirstAt(results, exact)
       ELSE IF partial # {}
            THEN FirstAt(results, partial)
            ELSE IF Len(results) > 0 THEN Some(results[1]) ELSE None

\* n_results of search_by_drug_and_food
PairTopK == 5
\* n_results of get_dangerous_foods_for_drug and get_safe_foods_for_drug
ListTopK == 10

\* f"{drug_name} {food_name}"
PairQuery(drug_name, food_name) == drug_name \o <<" ">> \o food_name

\* the query of get_dangerous_foods_for_drug: the drug name followed by two
\* fixed Korean words ("risk", "contraindication"), written here as the
\* tokens "wh" and "kk"; neither is part of any drug or food name
DangerQuery(drug_name) == drug_name \o <<" ", "w", "h", " ", "k", "k">>

\* the query of get_safe_foods_for_drug: the drug name followed by one fixed
\* Korean word ("safe"), written here as the token "sf"
SafeQuery(drug_name) == drug_name \o <<" ", "s", "f">>

\* n_results of every search of get_interactions_for_drugs
InteractionsTopK == 20

\* sort key of get_interactions_for_drugs: risk_priority alone
RiskKey(x) == <<x.risk_priority, 0>>

\* a get_interactions_for_drugs that sorts without the seen-set loop
CombineForDrugs_NoDedup(all_results) ==
    Sorted(all_results, [i \in DOMAIN all_results |-> RiskKey(all_results[i])])

\* the tail of get_interactions_for_drugs: the seen-set loop over the
\* concatenated results of the searches, then the stable sort by risk
CombineForDrugs(all_results) ==
    LET unique_results == Dedup(all_results)
    IN Sorted(unique_results,
              [i \in DOMAIN unique_results |-> RiskKey(unique_results[i])])

(* ------------------------------ get_stats ------------------------------ *)

\* Series.nunique(): the number of distinct values of a column
NUnique(values) == Cardinality(Range(values))

\* a histogram that records which values occur, not how often
ValueCounts_Presence(values) == [v \in Range(values) |-> 1]

\* Series.value_counts().to_dict(): every value that occurs, with the
\* number of rows holding it
ValueCounts(values) ==
    [v \in Range(values) |-> Cardinality({i \in DOMAIN values : values[i] = v})]

\* DrugFoodRAG.get_stats: total_interactions is collection.count(), the rest
\* is computed from interactions_df when it is loaded
GetStats(df, coll) ==
    IF ~coll.exists
    THEN \* self.collection.count() on a deleted collection raises
         [raised |-> TRUE, stats |-> None]
    ELSE [raised |-> FALSE,
          stats |-> Some([total_interactions |-> Len(coll.docs),
                          drugs |-> IF IsNone(df) THEN 0
                                    ELSE NUnique([i \in DOMAIN df[1] |-> df[1][i].drug_name]),
                          foods |-> IF IsNone(df) THEN 0
                                    ELSE NUnique([i \in DOMAIN df[1] |-> df[1][i].food_name]),
                          by_risk_level |->
                              IF IsNone(df) THEN <<>>
                              ELSE ValueCounts([i \in DOMAIN df[1] |-> df[1][i].risk_level])])]

(* ---------------------------- build_index ------------------------------ *)

\* a forced rebuild that forgets to drop the old collection
DropAndCreate_Keep(coll) == coll

\* client.delete_collection then client.create_collection, both succeeding
DropAndCreate(coll) == EmptyCollection

BuildReturn(s, m, c) == [success |-> s, message |-> m, count |-> c]

\* a build that never takes the reuse return
ReuseIndex_Never(existing_count, force_rebuild) == FALSE

\* `if existing_count > 0 and not force_rebuild`
ReuseIndex(existing_count, force_rebuild) == existing_count > 0 /\ ~force_rebuild

\* DrugFoodRAG.build_index; fault names the collaborator call that raises
\* in this run ("delete", "create", "add") or "none"
BuildIndex(df, coll, force_rebuild, fault) ==
    IF IsNone(df)
    THEN [collection |-> coll, raised |-> FALSE,
          ret |-> Some(BuildReturn(FALSE, "no-data", None))]
    ELSE IF ~coll.exists
    THEN \* self.collection.count() on a deleted collection raises
         [collection |-> coll, raised |-> TRUE, ret |-> None]
    ELSE LET existing_count == Len(coll.docs)
             recreate == force_rebuild /\ existing_count > 0
             recreated == IF recreate THEN DropAndCreate(coll) ELSE coll
         IN IF ReuseIndex(existing_count, force_rebuild)
            THEN [collection |-> coll,
                  raised |-> FALSE,
                  ret |-> Some(BuildReturn(TRUE, "reuse", Some(existing_count)))]
            ELSE IF recreate /\ fault = "delete"
            THEN [collection |-> coll, raised |-> TRUE, ret |-> None]
            ELSE IF recreate /\ fault = "create"
            THEN [collection |-> DroppedCollection, raised |-> TRUE, ret |-> None]
            ELSE IF fault = "add"
            THEN [collection |-> recreated, raised |-> TRUE, ret |-> None]
            ELSE [collection |-> Collection(TRUE, recreated.docs \o Project(df[1])),
                  raised |-> FALSE,
                  ret |-> Some(BuildReturn(TRUE, "built", Some(Len(df[1]))))]

(* ------------------------------ __init__ ------------------------------- *)

\* a constructor that drops and recreates the collection on any error of
\* get_or_create_collection
OpenCollection_AnyError(coll, outcome, fault) ==
    IF outcome = "ok"
    THEN [collection |-> IF coll.exists THEN coll ELSE EmptyCollection,
          raised |-> FALSE, drops |-> 0, creates |-> 0]
    ELSE IF fault = "delete"
    THEN [collection |-> coll, raised |-> TRUE, drops |-> 1, creates |-> 0]
    ELSE IF fault = "create"
    THEN [collection |-> DroppedCollection, raised |-> TRUE, drops |-> 1,
          creates |-> 1]
    ELSE [collection |-> EmptyCollection, raised |-> FALSE, drops |-> 1,
          creates |-> 1]

\* the try/except around get_or_create_collection in __init__. outcome is
\* what get_or_create_collection does: "ok", "conflict" (a ValueError whose
\* text holds "Embedding function conflict") or "other" (any other error);
\* fault names the call of the recovery that raises ("delete", "create") or
\* "none". drops and creates count the delete_collection and
\* create_collection calls issued.
OpenCollection(coll, outcome, fault) ==
    IF outcome = "ok"
    THEN \* the persisted collection, or a new empty one
         [collection |-> IF coll.exists THEN coll ELSE EmptyCollection,
          raised |-> FALSE, drops |-> 0, creates |-> 0]
    ELSE IF outcome = "other"
    THEN [collection |-> coll, raised |-> TRUE, drops |-> 0, creates |-> 0]
    ELSE IF fault = "delete"
    THEN [collection |-> coll, raised |-> TRUE, drops |-> 1, creates |-> 0]
    ELSE IF fault = "create"
    THEN [collection |-> DroppedCollection, raised |-> TRUE, drops |-> 1,
          creates |-> 1]
    ELSE [collection |-> EmptyCollection, raised |-> FALSE, drops |-> 1,
          creates |-> 1]

(* ------------------------------ inputs --------------------------------- *)

Faults == {"none", "delete", "create", "add"}

Drugs == {DrugA, DrugB}
FoodArgs == {FoodG, <<"g", "j">>, <<"c">>}

Queries == {<<>>, <<"a">>, <<"G", " ", " ", "g", " ", "g", " ", "c">>}
NResults == 0..MaxN
DrugFilters == {None, Some(<<DrugA>>)}
FoodFilters == {None, Some(<<"g">>)}
RiskFilters == {None, Some(<<"danger", "warning">>)}

SearchArgs(q, n, d, f, r) ==
    [drug_filter |-> d, food_filter |-> f, risk_filter |-> r, n_results |-> n,
     query |-> q]

\* the index answers only if search reaches the vector stage
QueryOutcomes(df, coll, a) ==
    IF KeywordSuffices(KeywordResults(df, a.query, a.drug_filter, a.food_filter,
                                      a.risk_filter),
                       a.n_results)
    THEN {[kind |-> "unqueried", hits |-> <<>>]}
    ELSE VectorOutcomes(coll, a.n_results, a.drug_filter, a.food_filter,
                        a.risk_filter)

\* the drug lists and risk_levels get_interactions_for_drugs is called with
DrugLists == {<<DrugA, DrugB>>, <<DrugA, DrugA>>, <<DrugB>>}
RiskLevelArgs == {None, Some(<<"danger", "warning", "caution">>)}

\* the arguments of the search get_interactions_for_drugs makes for one drug
DrugArgs(drug_name, risk_levels) ==
    SearchArgs(drug_name, InteractionsTopK, Some(<<drug_name>>), None, risk_levels)

\* the loop of get_interactions_for_drugs from the i-th drug on: one search
\* per drug, its results appended to all_results; a search that raises ends
\* the call. Every element is one way the index can answer the searches.
RECURSIVE DrugRuns(_, _, _, _, _)
DrugRuns(df, coll, drug_names, risk_levels, i) ==
    IF i > Len(drug_names)
    THEN {[raised |-> FALSE, queries |-> 0, all_results |-> <<>>, store |-> df]}
    ELSE LET a == DrugArgs(drug_names[i], risk_levels)
             after == StoreAfterSearch(df, a.drug_filter, a.food_filter,
                                       a.risk_filter)
             later == DrugRuns(after, coll, drug_names, risk_levels, i + 1)
             outs == {Search(df, a.query, a.n_results, a.drug_filter,
                             a.food_filter, a.risk_filter, env) :
                         env \in QueryOutcomes(df, coll, a)}
             run(out) ==
                 IF out.raised
                 THEN {[raised |-> TRUE, queries |-> out.queries,
                        all_results |-> <<>>, store |-> after]}
                 ELSE {[raised |-> rest.raised,
                        queries |-> out.queries + rest.queries,
                        all_results |-> out.result \o rest.all_results,
                        store |-> rest.store] :
                          rest \in later}
         IN UNION {run(out) : out \in outs}

(* ------------------------------ actions -------------------------------- *)

\* rag.build_index(force_rebuild)
Build(force_rebuild, fault) ==
    /\ pc = "idle"
    /\ LET out == BuildIndex(interactions_df, collection, force_rebuild, fault)
       IN /\ collection' = out.collection
          /\ last' = [op |-> "build", raised |-> out.raised, queries |-> 0,
                      force_rebuild |-> force_rebuild, fault |-> fault,
                      ret |-> out.ret, pre |-> collection]
    /\ pc' = "done"
    /\ UNCHANGED interactions_df

\* one call of search made by operation op with arguments a
CallSearch(op, a, food_name) ==
    /\ pc = "idle"
    /\ \E env \in QueryOutcomes(interactions_df, collection, a) :
         LET out == Search(interactions_df, a.query, a.n_results, a.drug_filter,
                           a.food_filter, a.risk_filter, env)
         IN last' = [op |-> op, food_name |-> food_name, kind |-> env.kind,
                     hits |-> env.hits, raised |-> out.raised, result |-> out.result,
                     queries |-> out.queries, args |-> a,
                     picked |-> IF op = "search_by_drug_and_food" /\ ~out.raised
                                THEN PickResult(out.result, food_name)
                                ELSE None,
                     keyword_results |->
                         KeywordResults(interactions_df, a.query, a.drug_filter,
                                        a.food_filter, a.risk_filter)]
    /\ pc' = "done"
    /\ interactions_df' = StoreAfterSearch(interactions_df, a.drug_filter,
                                           a.food_filter, a.risk_filter)
    /\ UNCHANGED collection

\* rag.search(query, n_results, drug_filter, food_filter, risk_filter)
DoSearch ==
    \E q \in Queries, n \in NResults, d \in DrugFilters, f \in FoodFilters,
       r \in RiskFilters :
         CallSearch("search", SearchArgs(q, n, d, f, r), None)

\* rag.search_by_drug_and_food(drug_name, food_name)
SearchByDrugAndFood ==
    \E drug \in Drugs, food \in FoodArgs :
         CallSearch("search_by_drug_and_food",
                    SearchArgs(PairQuery(drug, food), PairTopK, Some(<<drug>>),
                               None, None),
                    food)

\* rag.get_dangerous_foods_for_drug(drug_name)
GetDangerousFoodsForDrug ==
    \E drug \in Drugs :
         CallSearch("get_dangerous_foods_for_drug",
                    SearchArgs(DangerQuery(drug), ListTopK, Some(<<drug>>), None,
                               Some(<<"danger", "warning">>)),
                    None)

\* rag.get_safe_foods_for_drug(drug_name)
GetSafeFoodsForDrug ==
    \E drug \in Drugs :
         CallSearch("get_safe_foods_for_drug",
                    SearchArgs(SafeQuery(drug), ListTopK, Some(<<drug>>), None,
                               Some(<<"safe">>)),
                    None)

\* rag.get_interactions_for_drugs(drug_names, risk_levels)
GetInteractionsForDrugs ==
    /\ pc = "idle"
    /\ \E drug_names \in DrugLists, risk_levels \in RiskLevelArgs :
         \E run \in DrugRuns(interactions_df, collection, drug_names,
                             risk_levels, 1) :
            /\ last' = [op |-> "get_interactions_for_drugs",
                        raised |-> run.raised,
                        result |-> IF run.raised THEN <<>>
                                   ELSE CombineForDrugs(run.all_results),
                        queries |-> run.queries,
                        risk_levels |-> risk_levels,
                        drug_names |-> drug_names]
            /\ interactions_df' = run.store
    /\ pc' = "done"
    /\ UNCHANGED collection

\* rag.get_stats()
DoGetStats ==
    /\ pc = "idle"
    /\ LET out == GetStats(interactions_df, collection)
       IN last' = [op |-> "get_stats", raised |-> out.raised, stats |-> out.stats]
    /\ pc' = "done"
    /\ UNCHANGED <<interactions_df, collection>>

\* the caller takes the outcome of the call and is free to call again
Return ==
    /\ pc = "done"
    /\ pc' = "idle"
    /\ last' = NoCall
    /\ UNCHANGED <<interactions_df, collection>>

\* after DrugFoodRAG.__init__: get_or_create_collection opened what an
\* earlier run persisted (possibly built from an older CSV) or created an
\* empty collection; _load_data read the CSV or left interactions_df None
Init ==
    /\ interactions_df \in {None} \cup {Some(s) : s \in Stores}
    /\ collection \in {Collection(TRUE, Project(s)) : s \in PersistedStores}
    /\ pc = "idle"
    /\ last = NoCall

Next ==
    \/ \E force_rebuild \in BOOLEAN, fault \in Faults : Build(force_rebuild, fault)
    \/ DoSearch
    \/ SearchByDrugAndFood
    \/ GetDangerousFoodsForDrug
    \/ GetSafeFoodsForDrug
    \/ GetInteractionsForDrugs
    \/ DoGetStats
    \/ Return

Spec == Init /\ [][Next]_vars

(* ---------- the engine's life: construction, then its builds ----------- *)

InitOutcomes == {"ok", "conflict", "other"}
InitFaults == {"none", "delete", "create"}

\* what the persist directory holds before an engine is constructed: no
\* collection yet, or the collection an earlier run left
Persisted ==
    {DroppedCollection} \cup {Collection(TRUE, Project(s)) : s \in PersistedStores}

\* _load_data: the CSV read by pd.read_csv, or None when the file is
\* missing or unreadable
LoadData(csv) == csv

\* the call that returned before the one in last: none yet
NoPrev ==
    [op |-> "none", raised |-> FALSE, force_rebuild |-> FALSE, fault |-> "none",
     outcome |-> "none"]

\* what the next call remembers of the call in l
Summary(l) ==
    IF l.op = "init"
    THEN [op |-> "init", raised |-> l.raised, force_rebuild |-> FALSE,
          fault |-> l.fault, outcome |-> l.outcome]
    ELSE [op |-> "build", raised |-> l.raised, force_rebuild |-> l.force_rebuild,
          fault |-> l.fault, outcome |-> "none"]

\* rag = DrugFoodRAG(): open (or recover) the collection, then load the CSV;
\* a constructor that raises leaves no engine
Construct(outcome, fault, csv) ==
    /\ pc = "new"
    /\ outcome = "conflict" => collection.exists
    /\ fault # "none" => outcome = "conflict"
    /\ LET out == OpenCollection(collection, outcome, fault)
       IN /\ collection' = out.collection
          /\ interactions_df' = IF out.raised THEN None ELSE LoadData(csv)
          /\ last' = [op |-> "init", raised |-> out.raised, fault |-> fault,
                      outcome |-> outcome, drops |-> out.drops,
                      creates |-> out.creates, pre |-> collection]
          /\ pc' = IF out.raised THEN "dead" ELSE "done"

\* rag.build_index(force_rebuild), remembering the call before it
BuildCall(force_rebuild, fault) ==
    /\ pc = "idle"
    /\ LET out == BuildIndex(interactions_df, collection, force_rebuild, fault)
       IN /\ collection' = out.collection
          /\ last' = [op |-> "build", raised |-> out.raised,
                      force_rebuild |-> force_rebuild, fault |-> fault,
                      ret |-> out.ret, pre |-> collection, prev |-> last.prev]
    /\ pc' = "done"
    /\ UNCHANGED interactions_df

\* the call returns (or its exception is caught by the caller)
ReturnCall ==
    /\ pc = "done"
    /\ pc' = "idle"
    /\ last' = [op |-> "none", prev |-> Summary(last)]
    /\ UNCHANGED <<interactions_df, collection>>

LifecycleInit ==
    /\ interactions_df = None
    /\ collection \in Persisted
    /\ pc = "new"
    /\ last = NoCall

LifecycleNext ==
    \/ \E outcome \in InitOutcomes, fault \in InitFaults,
          csv \in {None} \cup {Some(st) : st \in Stores} :
            Construct(outcome, fault, csv)
    \/ \E force_rebuild \in BOOLEAN, fault \in Faults :
            BuildCall(force_rebuild, fault)
    \/ ReturnCall

LifecycleSpec == LifecycleInit /\ [][LifecycleNext]_vars

(* ------ one builder and one searcher on the same engine, no lock ------- *)

\* Here pc holds the position of each thread and what the calls so far
\* have established:
\*   builder    "idle", or the collaborator call build_index makes next:
\*              "delete", "create", "add"
\*   searcher   "idle", or the collection.query call search makes next:
\*              "query", "retry"
\*   overlap    a build_index call was running at some moment of the
\*              search in progress
\*   succeeded  some build_index call has returned success=true
\*   synced     a build_index call has added the documents of the records,
\*              and no build_index call has raised since
Threads(b, s, o, su, sy) ==
    [builder |-> b, searcher |-> s, overlap |-> o, succeeded |-> su, synced |-> sy]

\* the searches the searcher thread makes
ConcurrentArgs ==
    {SearchArgs(q, 1, None, None, None) : q \in {<<>>, <<"a">>}}

\* the builder moves to position b; a search in progress has now overlapped
BuilderAt(b, su, sy) ==
    Threads(b, pc.searcher, pc.overlap \/ pc.searcher # "idle", su, sy)

\* the builder enters build_index(force_rebuild): the None test, count() and
\* the reuse test run before any collaborator call that changes the index
StartBuild(force_rebuild) ==
    /\ pc.builder = "idle"
    /\ pc' = IF IsNone(interactions_df)
             THEN BuilderAt("idle", pc.succeeded, pc.synced)
             ELSE IF ~collection.exists
             THEN BuilderAt("idle", pc.succeeded, FALSE)
             ELSE IF ReuseIndex(Len(collection.docs), force_rebuild)
             THEN BuilderAt("idle", TRUE, pc.synced)
             ELSE IF force_rebuild /\ Len(collection.docs) > 0
             THEN BuilderAt("delete", pc.succeeded, pc.synced)
             ELSE BuilderAt("add", pc.succeeded, pc.synced)
    /\ UNCHANGED <<interactions_df, collection, last>>

\* self.client.delete_collection(COLLECTION_NAME)
DeleteCollection(fails) ==
    /\ pc.builder = "delete"
    /\ IF fails
       THEN /\ pc' = BuilderAt("idle", pc.succeeded, FALSE)
            /\ UNCHANGED collection
       ELSE /\ pc' = BuilderAt("create", pc.succeeded, pc.synced)
            /\ collection' = DroppedCollection
    /\ UNCHANGED <<interactions_df, last>>

\* self.collection = self.client.create_collection(...)
CreateCollection(fails) ==
    /\ pc.builder = "create"
    /\ IF fails
       THEN /\ pc' = BuilderAt("idle", pc.succeeded, FALSE)
            /\ UNCHANGED collection
       ELSE /\ pc' = BuilderAt("add", pc.succeeded, pc.synced)
            /\ collection' = EmptyCollection
    /\ UNCHANGED <<interactions_df, last>>

\* self.collection.add(documents, metadatas, ids) and the return
AddDocuments(fails) ==
    /\ pc.builder = "add"
    /\ IF fails
       THEN /\ pc' = BuilderAt("idle", pc.succeeded, FALSE)
            /\ UNCHANGED collection
       ELSE /\ pc' = BuilderAt("idle", TRUE, TRUE)
            /\ collection' = Collection(TRUE, collection.docs
                                                \o Project(interactions_df[1]))
    /\ UNCHANGED <<interactions_df, last>>

\* what a finished search leaves in last: observed is the collection as the
\* last query found it, hits the number of candidates that query returned
Observation(a, out, hits, observed) ==
    [op |-> "search", hits |-> hits, raised |-> out.raised,
     queries |-> out.queries, args |-> a, overlap |-> pc.overlap,
     succeeded |-> pc.succeeded, synced |-> pc.synced, observed |-> observed]

\* the searcher enters search(query, n_results=1): the keyword stage reads
\* interactions_df only; with enough keyword hits search returns here
StartSearch(a) ==
    /\ pc.searcher = "idle"
    /\ LET kw == KeywordResults(interactions_df, a.query, a.drug_filter,
                                a.food_filter, a.risk_filter)
           running == pc.builder # "idle"
       IN IF KeywordSuffices(kw, a.n_results)
          THEN /\ pc' = Threads(pc.builder, "idle", FALSE, pc.succeeded, pc.synced)
               /\ last' = [op |-> "none"]
          ELSE /\ pc' = Threads(pc.builder, "query", running, pc.succeeded,
                                pc.synced)
               /\ last' = [op |-> "searching", args |-> a]
    /\ UNCHANGED <<interactions_df, collection>>

\* the search in last ends with the outcome env of its vector stage
EndSearch(env) ==
    /\ last' = Observation(last.args,
                           Search(interactions_df, last.args.query,
                                  last.args.n_results, last.args.drug_filter,
                                  last.args.food_filter, last.args.risk_filter, env),
                           Len(env.hits), collection)
    /\ pc' = Threads(pc.builder, "idle", FALSE, pc.succeeded, pc.synced)

\* the filtered collection.query of search: it returns, or it raises and
\* search goes on to the retry
QueryIndex ==
    /\ pc.searcher = "query"
    /\ \E env \in VectorOutcomes(collection, last.args.n_results,
                                  last.args.drug_filter, last.args.food_filter,
                                  last.args.risk_filter) :
          \/ /\ env.kind = "ok"
             /\ EndSearch(env)
          \/ /\ env.kind # "ok"
             /\ pc' = Threads(pc.builder, "retry", pc.overlap, pc.succeeded,
                              pc.synced)
             /\ UNCHANGED last
    /\ UNCHANGED <<interactions_df, collection>>

\* the unfiltered collection.query in the except block: it returns, or it
\* raises and the exception leaves search
RetryQuery ==
    /\ pc.searcher = "retry"
    /\ \E env \in VectorOutcomes(collection, last.args.n_results,
                                  last.args.drug_filter, last.args.food_filter,
                                  last.args.risk_filter) :
          /\ env.kind # "ok"
          /\ EndSearch(env)
    /\ UNCHANGED <<interactions_df, collection>>

ConcurrentInit ==
    /\ interactions_df \in {None} \cup {Some(st) : st \in Stores}
    /\ collection \in {Collection(TRUE, Project(st)) : st \in PersistedStores}
    /\ pc = Threads("idle", "idle", FALSE, FALSE, FALSE)
    /\ last = NoCall

ConcurrentNext ==
    \/ \E force_rebuild \in BOOLEAN : StartBuild(force_rebuild)
    \/ \E fails \in BOOLEAN : DeleteCollection(fails)
    \/ \E fails \in BOOLEAN : CreateCollection(fails)
    \/ \E fails \in BOOLEAN : AddDocuments(fails)
    \/ \E a \in ConcurrentArgs : StartSearch(a)
    \/ QueryIndex
    \/ RetryQuery

ConcurrentSpec == ConcurrentInit /\ [][ConcurrentNext]_vars

(* ====================== properties of the engine ======================= *)

SearchOps == {"search", "search_by_drug_and_food",
              "get_dangerous_foods_for_drug", "get_safe_foods_for_drug"}

\* a call of search has returned a list
Returned == pc = "done" /\ last.op \in SearchOps /\ ~last.raised

\* the keyword hits of the call in last
LastKeywordHits == last.keyword_results

\* C1: the list returned by search never holds two results with the same
\* (drug_name, food_name) pair, on the short-circuit path and on the
\* fusion path, also when the record store repeats a pair.
C1_NoDuplicatePairs ==
    Returned =>
        \A i, j \in DOMAIN last.result :
            i # j => PairKey(last.result[i]) # PairKey(last.result[j])

\* C2: a failing vector query never escapes search: when the filtered query
\* and the unfiltered retry both raise, search still returns the keyword
\* results (sorted, de-duplicated, truncated) instead of raising.
C2_SearchNeverRaises ==
    (pc = "done" /\ last.op \in SearchOps) =>
        /\ ~last.raised
        /\ last.kind = "fail" =>
              last.result = Fusion(LastKeywordHits, <<>>, last.args.n_results)

\* the documents of the index are exactly the projection of the records:
\* one document per row, with id interaction_{row index} and the row's data
IndexMatchesRecords ==
    /\ ~IsNone(interactions_df)
    /\ collection.exists
    /\ Len(collection.docs) = Len(interactions_df[1])
    /\ \A i \in DOMAIN interactions_df[1] :
          /\ Cardinality({k \in DOMAIN collection.docs :
                            collection.docs[k].id = i - 1}) = 1
          /\ \E k \in DOMAIN collection.docs :
                /\ collection.docs[k].id = i - 1
                /\ collection.docs[k].drug_name = interactions_df[1][i].drug_name
                /\ collection.docs[k].food_name = interactions_df[1][i].food_name
                /\ collection.docs[k].risk_level = interactions_df[1][i].risk_level

\* C3: build atomicity: whatever fails inside a build call, the index
\* afterwards holds either the full projection of the current records or
\* exactly what it held before the call.
C3_BuildAtomic ==
    (pc = "done" /\ last.op = "build") =>
        \/ collection = last.pre
        \/ IndexMatchesRecords

\* a build call has returned success=true
BuildSucceeded ==
    /\ pc = "done" /\ last.op = "build"
    /\ ~last.raised
    /\ last.ret[1].success

\* C4 as claimed: after every build call that returns success=true, from any
\* prior index state and with either force_rebuild, every record has exactly
\* one indexed document interaction_{row index} and the counts agree.
C4_SuccessIndexesEveryRecord == BuildSucceeded => IndexMatchesRecords

\* the build call in last took the reuse return
ReusedIndex == ~last.force_rebuild /\ Len(last.pre.docs) > 0

\* C4 amended: after every build call that returns success=true without
\* taking the reuse return (force_rebuild is true, or the index was empty),
\* every record has exactly one indexed document and the counts agree; a
\* reuse return leaves the index as it was and reports the existing count.
C4_SuccessfulBuildIndexesEveryRecord ==
    BuildSucceeded =>
        IF ReusedIndex
        THEN /\ collection = last.pre
             /\ last.ret[1].count = Some(Len(last.pre.docs))
        ELSE /\ IndexMatchesRecords
             /\ last.ret[1].count = Some(Len(interactions_df[1]))

\* a forced rebuild succeeded over a non-empty index that did not match the
\* (non-empty) record store
C4_Witness ==
    /\ BuildSucceeded
    /\ last.force_rebuild
    /\ Len(last.pre.docs) > 0
    /\ last.pre.docs # Project(interactions_df[1])
    /\ Len(interactions_df[1]) = MaxRecords

\* r passes the filters a search call was given
SatisfiesFilters(r, a) ==
    /\ (~IsNone(a.drug_filter) /\ Len(a.drug_filter[1]) > 0)
          => r.drug_name \in Range(a.drug_filter[1])
    /\ (~IsNone(a.food_filter) /\ Len(a.food_filter[1]) > 0)
          => Contains(Lower(a.food_filter[1]), Lower(r.food_name))
    /\ (~IsNone(a.risk_filter) /\ Len(a.risk_filter[1]) > 0)
          => r.risk_level \in Range(a.risk_filter[1])

\* C5: every result returned by search satisfies all supplied filters, on
\* every path, including the retry after a raising filtered query; so the
\* dangerous list of d holds only d's danger/warning results and the safe
\* list of d only d's safe results.
C5_ResultsSatisfyFilters ==
    Returned =>
        \A i \in DOMAIN last.result : SatisfiesFilters(last.result[i], last.args)

\* C6: every list search returns is ordered by risk_priority ascending and,
\* within one risk_priority, by distance ascending.
C6_RankedByRiskThenDistance ==
    Returned =>
        \A i, j \in DOMAIN last.result :
            i < j =>
                \/ last.result[i].risk_priority < last.result[j].risk_priority
                \/ /\ last.result[i].risk_priority = last.result[j].risk_priority
                   /\ last.result[i].distance <= last.result[j].distance

\* a danger result precedes a safe result that is nearer to the query
C6_Witness ==
    /\ Returned
    /\ \E i, j \in DOMAIN last.result :
          /\ i < j
          /\ last.result[i].risk_priority = 1
          /\ last.result[j].risk_priority = 4
          /\ last.result[i].distance > last.result[j].distance

\* C7: whenever the keyword hits number at least n_results (equality
\* included), search returns without querying the vector index.
C7_ShortCircuitSkipsIndex ==
    (pc = "done" /\ last.op \in SearchOps /\ Len(LastKeywordHits) >= last.args.n_results)
        => /\ last.queries = 0
           /\ ~last.raised

\* exactly n_results >= 1 keyword hits, and the index was not queried
C7_Witness ==
    /\ pc = "done" /\ last.op = "search"
    /\ last.args.n_results >= 1
    /\ Len(LastKeywordHits) = last.args.n_results
    /\ last.queries = 0
    /\ Len(collection.docs) > 0

\* C8: for n_results >= 0 the returned list has at most n_results entries.
C8_AtMostNResults ==
    Returned => Len(last.result) <= last.args.n_results

\* more keyword hits than n_results >= 1, and n_results results returned
C8_Witness ==
    /\ Returned
    /\ last.args.n_results >= 1
    /\ Len(LastKeywordHits) > last.args.n_results
    /\ Len(last.result) = last.args.n_results

\* the selection C9 describes: exact match, else substring in either
\* direction, else the first result, else none
ClaimedPick(results, food_name) ==
    LET exact == {i \in DOMAIN results :
                    Lower(results[i].food_name) = Lower(food_name)}
        either == {i \in DOMAIN results :
                     \/ Contains(Lower(food_name), Lower(results[i].food_name))
                     \/ Contains(Lower(results[i].food_name), Lower(food_name))}
    IN IF exact # {}
       THEN FirstAt(results, exact)
       ELSE IF either # {}
            THEN FirstAt(results, either)
            ELSE IF Len(results) > 0 THEN Some(results[1]) ELSE None

\* C9: search_by_drug_and_food searches with drug_filter=[drug], query
\* "{drug} {food}" and n_results=5 and returns the first exact match, else
\* the first result whose food_name contains food or is contained in food,
\* else the first result, else none.
C9_PicksBySubstringEitherWay ==
    (Returned /\ last.op = "search_by_drug_and_food") =>
        /\ last.args.n_results = 5
        /\ Len(last.args.drug_filter[1]) = 1
        /\ last.picked = ClaimedPick(last.result, last.food_name)

\* C10: with an empty or unavailable record store build returns
\* success=false, for either force_rebuild, and does not touch the index.
C10_EmptyStoreBuildFails ==
    (pc = "done" /\ last.op = "build"
        /\ (IsNone(interactions_df) \/ Len(interactions_df[1]) = 0))
        => /\ ~last.raised
           /\ ~last.ret[1].success
           /\ collection = last.pre

(* ------------- frame, drug lists, statistics, distances ---------------- *)

\* C15: across any sequence of operations the record store is never
\* modified, and the index (container and documents) changes only inside a
\* build call: search, search_by_drug_and_food, get_interactions_for_drugs,
\* get_dangerous_foods_for_drug, get_safe_foods_for_drug and get_stats leave
\* both unchanged, on their error paths too.
C15_OnlyBuildChangesIndex ==
    [][ /\ interactions_df' = interactions_df
        /\ (collection' # collection) => (pc = "idle" /\ last'.op = "build") ]_vars

\* a search over a loaded store whose filters reject a row came back from
\* its error path (the filtered query raised) with a non-empty index
C15_Witness ==
    /\ pc = "done" /\ last.op = "search"
    /\ last.kind = "retry"
    /\ Len(collection.docs) > 0
    /\ ~IsNone(interactions_df)
    /\ \E i \in DOMAIN interactions_df[1] :
          ~RowPasses(interactions_df[1][i], last.args.drug_filter,
                     last.args.food_filter, last.args.risk_filter)

\* C16: the list get_interactions_for_drugs returns holds no two results
\* with the same (drug_name, food_name) pair and is ordered by risk_priority
\* ascending, for every drug list, also one that repeats a drug.
C16_DrugListUniqueAndRanked ==
    (pc = "done" /\ last.op = "get_interactions_for_drugs" /\ ~last.raised) =>
        /\ \A i, j \in DOMAIN last.result :
              i # j => PairKey(last.result[i]) # PairKey(last.result[j])
        /\ \A i, j \in DOMAIN last.result :
              i < j => last.result[i].risk_priority <= last.result[j].risk_priority

\* a list that names one drug twice gave two results of different risk
C16_Witness ==
    /\ pc = "done" /\ last.op = "get_interactions_for_drugs" /\ ~last.raised
    /\ last.drug_names = <<DrugA, DrugA>>
    /\ Len(last.result) >= 2
    /\ last.result[1].risk_priority < last.result[Len(last.result)].risk_priority

\* C17: with an empty or unavailable record store get_stats does not raise
\* and reports total_interactions = 0, drugs = 0, foods = 0 and an empty
\* histogram, whatever the persistent index holds.
C17_EmptyStoreStatsZero ==
    (pc = "done" /\ last.op = "get_stats"
        /\ (IsNone(interactions_df) \/ Len(interactions_df[1]) = 0))
        => /\ ~last.raised
           /\ last.stats[1].total_interactions = 0
           /\ last.stats[1].drugs = 0
           /\ last.stats[1].foods = 0
           /\ DOMAIN last.stats[1].by_risk_level = {}

\* the sum of the counts of a histogram
RECURSIVE SumOver(_, _)
SumOver(f, S) ==
    IF S = {} THEN 0
    ELSE LET v == CHOOSE x \in S : TRUE
         IN f[v] + SumOver(f, S \ {v})

\* every row of the loaded store has one of the four risk levels
AllLevelsKnown ==
    /\ ~IsNone(interactions_df)
    /\ \A i \in DOMAIN interactions_df[1] :
          interactions_df[1][i].risk_level \in DOMAIN RISK_LEVELS

C20_DistanceInUnitRange ==
    Returned =>
        \A i \in DOMAIN last.result :
            /\ last.result[i].distance >= 0
            /\ last.result[i].distance <= 20

(* -------------------- construction and rebuilds ------------------------ *)

\* a build call over a loaded, non-empty record store has ended
BuildOverRecords ==
    /\ pc = "done" /\ last.op = "build"
    /\ ~IsNone(interactions_df)
    /\ Len(interactions_df[1]) > 0

\* C11: from every prior index state, build(force_rebuild=true) on a
\* non-empty record store in which no collaborator operation fails ends
\* with the index document count equal to the record count and reports it.
C11_ForcedRebuildCountsRecords ==
    (BuildOverRecords /\ last.force_rebuild /\ last.fault = "none" /\ ~last.raised)
        => /\ collection.exists
           /\ Len(collection.docs) = Len(interactions_df[1])
           /\ last.ret[1].success
           /\ last.ret[1].count = Some(Len(interactions_df[1]))

\* a forced rebuild succeeded over an index that held documents, but fewer
\* than the record store has rows
C11_Witness ==
    /\ BuildOverRecords /\ last.force_rebuild /\ ~last.raised
    /\ Len(last.pre.docs) > 0
    /\ Len(last.pre.docs) < Len(interactions_df[1])

\* the call in last is a build(force_rebuild=false) that directly follows a
\* build(force_rebuild=false) which returned
SecondPlainBuild ==
    /\ BuildOverRecords /\ ~last.force_rebuild
    /\ last.prev.op = "build" /\ ~last.prev.force_rebuild /\ ~last.prev.raised

\* C12: for a non-empty record store, the second of two successive
\* build(force_rebuild=false) calls leaves the index as the first left it,
\* issues no delete, create or add, and returns success=true with the reuse
\* message and the existing count.
C12_SecondBuildReuses ==
    SecondPlainBuild =>
        /\ ~last.raised
        /\ collection = last.pre
        /\ last.ret[1].success
        /\ last.ret[1].message = "reuse"
        /\ last.ret[1].count = Some(Len(last.pre.docs))

\* the second build reused an index that holds every record
C12_Witness ==
    /\ SecondPlainBuild
    /\ ~last.raised
    /\ last.ret[1].message = "reuse"
    /\ IndexMatchesRecords

\* C13: a failed build leaves the index Uninitialized (the container is
\* there and holds nothing), and a further build on the same engine, with
\* the fault gone and nothing in between, does not raise and ends with one
\* document per record; for a failure in delete, in create and in add.
C13_FailedBuildSafeToRetry ==
    /\ (pc = "done" /\ last.op = "build" /\ last.raised)
          => collection = EmptyCollection
    /\ (BuildOverRecords /\ last.fault = "none"
          /\ last.prev.op = "build" /\ last.prev.raised)
          => /\ ~last.raised
             /\ IndexMatchesRecords

\* C19: when get_or_create_collection fails with the embedding conflict the
\* constructor drops and recreates the collection exactly once and goes on
\* with an empty index, raising only if that drop or create raises; any
\* other error propagates with no drop and no create issued.
C19_ConflictRecoveredOnce ==
    last.op = "init" =>
        /\ last.outcome = "conflict" =>
              /\ last.drops = 1
              /\ last.creates <= 1
              /\ last.raised <=> last.fault # "none"
              /\ ~last.raised => (last.creates = 1 /\ collection = EmptyCollection)
        /\ last.outcome = "other" =>
              /\ last.raised
              /\ last.drops = 0 /\ last.creates = 0
              /\ collection = last.pre
        /\ last.outcome = "ok" =>
              /\ ~last.raised
              /\ last.drops = 0 /\ last.creates = 0

\* a conflict over a collection that held documents was recovered
C19_Witness ==
    /\ last.op = "init"
    /\ last.outcome = "conflict"
    /\ ~last.raised
    /\ Len(last.pre.docs) > 0
    /\ collection = EmptyCollection

(* ---------------------- search during a rebuild ------------------------ *)

\* the query of the search in last found the container dropped, or holding
\* fewer documents than the record store has rows
SawGap ==
    \/ ~last.observed.exists
    \/ Len(last.observed.docs) < Len(interactions_df[1])

\* a search over a loaded record store has finished its vector stage
\* without a build_index call running at any moment of it
SearchedAlone ==
    /\ last.op = "search"
    /\ ~last.overlap
    /\ ~IsNone(interactions_df)

\* C14: a search concurrent with build(force_rebuild=true) can query between
\* the drop and the end of the add (SearchInsideRebuild below is such a
\* state); once a build has returned success, a search that does not
\* overlap a rebuild never finds the container dropped or holding fewer
\* documents than there are records.
C14_NoGapOnceBuilt ==
    (SearchedAlone /\ last.succeeded) => ~SawGap

\* what does hold: a search that overlaps no build finds one document per
\* record once a build has added the documents of the records and no build
\* has raised since.
NoGapWhileSynced ==
    (SearchedAlone /\ last.synced) =>
        /\ ~SawGap
        /\ Len(last.observed.docs) = Len(interactions_df[1])

\* after a build that had indexed every record, a search running during a
\* forced rebuild queried between create and add and found the index empty
SearchInsideRebuild ==
    /\ last.op = "search"
    /\ last.overlap
    /\ last.synced
    /\ ~IsNone(interactions_df)
    /\ Len(interactions_df[1]) > 0
    /\ last.observed = EmptyCollection
    /\ ~last.raised
    /\ last.hits = 0

(* ------------- projector, keyword stage, fusion, ranking --------------- *)

\* C21: the metadata map of a projected record holds exactly the record
\* fields of the projected text plus risk_priority, so no field of the text
\* (and none the result formatter reads) is missing from the metadata of
\* an indexed document.
C21_MetadataCoversText ==
    (pc = "done" /\ last.op = "build" /\ ~last.raised
        /\ collection.exists /\ Len(collection.docs) > 0)
        => /\ MetadataKeys = Range(DocumentFields) \cup {"risk_priority"}
           /\ FormattedKeys \subseteq MetadataKeys

\* the (token, field) pairs of a query and a record in which the token is a
\* substring of the lower-cased field
MatchPairs(row, tokens) ==
    {p \in (DOMAIN tokens) \X {"drug_name", "food_name"} :
        Contains(tokens[p[1]], Lower(row[p[2]]))}

ClaimedScore(row, query) ==
    10 * Cardinality(MatchPairs(row, Split(Lower(query))))

\* the rows of the store that pass the structural filters of the call in last
LastFilteredRows ==
    SelectSeq(interactions_df[1],
              LAMBDA row : RowPasses(row, last.args.drug_filter,
                                     last.args.food_filter,
                                     last.args.risk_filter))

\* C22: the keyword stage scores a record 10 per (token, field) pair in
\* which the lower-cased whitespace-separated query token is a substring of
\* the lower-cased drug_name or food_name (a token matching both fields
\* counts twice, a repeated token counts each time); the record is a
\* keyword hit exactly when the score is positive, with relevance_score
\* score/20 and distance 1 - score/20; a query without tokens has no hits.
C22_KeywordScore ==
    (pc = "done" /\ last.op \in SearchOps /\ ~IsNone(interactions_df)) =>
        LET kw == LastKeywordHits
            tokens == Split(Lower(last.args.query))
            score(row) == 10 * Cardinality(MatchPairs(row, tokens))
            hits == SelectSeq(LastFilteredRows, LAMBDA row : score(row) > 0)
        IN /\ Len(kw) = Len(hits)
           /\ \A i \in DOMAIN kw :
                 /\ PairKey(kw[i]) = PairKey(hits[i])
                 /\ kw[i].risk_level = hits[i].risk_level
                 /\ kw[i].relevance_score = score(hits[i])
                 /\ kw[i].distance = 20 - kw[i].relevance_score
           /\ tokens = <<>> => kw = <<>>
           /\ ~last.raised =>
                 \A i \in DOMAIN last.result :
                     last.result[i].stage = "keyword"
                         => last.result[i] \in Range(kw)

\* a search with a one-token query returned a keyword hit whose token
\* matched both fields (relevance 20/20) while a row that passes the
\* filters matched nothing and is no hit
C22_Witness ==
    /\ Returned
    /\ ~IsNone(interactions_df)
    /\ Len(Split(Lower(last.args.query))) = 1
    /\ \E i \in DOMAIN last.result :
          /\ last.result[i].stage = "keyword"
          /\ last.result[i].relevance_score = 20
    /\ \E i \in DOMAIN LastFilteredRows :
          ClaimedScore(LastFilteredRows[i], last.args.query) = 0

\* the number of positions of s that hold x
Count(s, x) == Cardinality({i \in DOMAIN s : s[i] = x})

\* a ranks strictly before b: smaller risk_priority, or the same
\* risk_priority and a larger relevance_score
RanksBefore(a, b) ==
    \/ a.risk_priority < b.risk_priority
    \/ (a.risk_priority = b.risk_priority /\ a.relevance_score > b.relevance_score)

\* C23: when the keyword stage yields at least n_results hits, the result
\* is exactly the first n_results keyword hits in the order (risk_priority
\* ascending, relevance_score descending): no keyword hit left out ranks
\* strictly before a returned one, and no vector-derived result appears.
C23_ShortCircuitTopN ==
    (Returned /\ Len(LastKeywordHits) >= last.args.n_results) =>
        LET kw == LastKeywordHits
            res == last.result
        IN /\ Len(res) = last.args.n_results
           /\ last.queries = 0
           /\ \A i \in DOMAIN res :
                 /\ res[i].stage = "keyword"
                 /\ Count(res, res[i]) <= Count(kw, res[i])
           /\ \A i, j \in DOMAIN res : i < j => ~RanksBefore(res[j], res[i])
           /\ \A h \in DOMAIN kw :
                 Count(res, kw[h]) < Count(kw, kw[h])
                     => \A i \in DOMAIN res : ~RanksBefore(kw[h], res[i])

\* a search returned fewer results than there were keyword hits, one of the
\* hits left out ranking strictly after a returned one, while the index
\* held documents
C23_Witness ==
    /\ Returned
    /\ last.args.n_results >= 1
    /\ Len(LastKeywordHits) > last.args.n_results
    /\ Len(collection.docs) > 0
    /\ \E h \in DOMAIN LastKeywordHits :
          /\ Count(last.result, LastKeywordHits[h]) = 0
          /\ \E i \in DOMAIN last.result :
                /\ RanksBefore(last.result[i], LastKeywordHits[h])
                /\ last.result[i].relevance_score < LastKeywordHits[h].relevance_score

\* a search went through the vector stage and returned the fused list
Fused == Returned /\ last.queries > 0

\* the first position of s whose pair is that of r (0 if there is none)
FirstOfPair(s, r) ==
    IF \E i \in DOMAIN s : PairKey(s[i]) = PairKey(r)
    THEN CHOOSE i \in DOMAIN s :
            /\ PairKey(s[i]) = PairKey(r)
            /\ \A j \in 1..(i - 1) : PairKey(s[j]) # PairKey(r)
    ELSE 0

\* the index hits of the call in last, as (drug_name, food_name) carriers
LastHitDocs == [i \in DOMAIN last.hits |-> last.hits[i].doc]

\* C24: in the fused list a pair produced by both stages is represented by
\* its keyword result (keyword distance, not the vector distance), and of
\* several vector hits for one pair the first in index-rank order is kept.
C24_FusionKeepsKeywordThenFirstHit ==
    Fused =>
        LET kw == LastKeywordHits
            docs == LastHitDocs
        IN \A i \in DOMAIN last.result :
            LET r == last.result[i]
                k == FirstOfPair(kw, r)
                v == FirstOfPair(docs, r)
            IN IF k > 0
               THEN r = kw[k]
               ELSE /\ v > 0
                    /\ r.stage = "vector"
                    /\ r.distance = last.hits[v].distance
                    /\ r.risk_level = last.hits[v].doc.risk_level
                    /\ r.risk_priority = last.hits[v].doc.risk_priority

\* the fused list holds the keyword result of a pair the index also
\* returned, at another distance
C24_Witness ==
    /\ Fused
    /\ \E i \in DOMAIN last.result, h \in DOMAIN last.hits :
          /\ last.result[i].stage = "keyword"
          /\ PairKey(last.hits[h].doc) = PairKey(last.result[i])
          /\ last.hits[h].distance # last.result[i].distance

\* the index returned two hits for one pair that is no keyword hit, and the
\* fused list holds the first of them
TwoHitsOnePair ==
    /\ Fused
    /\ \E i \in DOMAIN last.result, g, h \in DOMAIN last.hits :
          /\ g < h
          /\ last.result[i].stage = "vector"
          /\ PairKey(last.hits[g].doc) = PairKey(last.result[i])
          /\ PairKey(last.hits[h].doc) = PairKey(last.result[i])
          /\ last.hits[g].distance < last.hits[h].distance
          /\ last.result[i].distance = last.hits[g].distance

\* the documents of the index that satisfy every filter the call in last
\* supplied
LastMatchingDocs ==
    {d \in Range(collection.docs) :
        WhereMatches(d, last.args.drug_filter, last.args.food_filter,
                     last.args.risk_filter)}

\* C25: when the keyword stage yields fewer than n_results hits, search
\* issues one index query for 2 x n_results neighbours under the conjunction
\* of the supplied filters, and a second, unfiltered query only if the first
\* raised: never more than two queries, and exactly one if the first
\* succeeds.
C25_AtMostTwoQueries ==
    (pc = "done" /\ last.op \in SearchOps
        /\ Len(LastKeywordHits) < last.args.n_results) =>
        /\ last.queries \in {1, 2}
        /\ last.queries = 1 <=> last.kind = "ok"
        /\ last.kind = "ok" =>
              /\ ~last.raised
              /\ Range(LastHitDocs) \subseteq LastMatchingDocs
              /\ Len(last.hits) = Min(2 * last.args.n_results,
                                      Cardinality(LastMatchingDocs))
        /\ last.kind = "retry" =>
              /\ ~last.raised
              /\ Len(last.hits) = Min(2 * last.args.n_results,
                                      Len(collection.docs))
        /\ last.raised => last.kind = "fail"

\* the filtered query of a search raised and the retry returned a document
\* that the filters of the call exclude
C25_Witness ==
    /\ Returned
    /\ Len(LastKeywordHits) < last.args.n_results
    /\ last.kind = "retry"
    /\ last.queries = 2
    /\ \E h \in DOMAIN last.hits : last.hits[h].doc \notin LastMatchingDocs

\* index states: dropped, never built or empty, stale (built from the store
\* of an earlier run) and fully built from the current store
IndexStates ==
    {DroppedCollection}
        \cup {Collection(TRUE, Project(s)) : s \in PersistedStores}
        \cup {Collection(TRUE, Project(interactions_df[i])) :
                 i \in DOMAIN interactions_df}

\* C26: whenever the keyword stage yields at least n_results hits, search
\* returns the same list for any two index states (never built, empty,
\* stale, fully built, dropped, or failing every query), the record store
\* and the arguments being the same.
C26_ShortCircuitIgnoresIndex ==
    (Returned /\ Len(LastKeywordHits) >= last.args.n_results) =>
        \A coll \in IndexStates :
            \A env \in QueryOutcomes(interactions_df, coll, last.args) :
                LET out == Search(interactions_df, last.args.query,
                                  last.args.n_results, last.args.drug_filter,
                                  last.args.food_filter, last.args.risk_filter,
                                  env)
                IN /\ ~out.raised
                   /\ out.result = last.result

\* a search returned keyword hits while the index was dropped
C26_Witness ==
    /\ Returned
    /\ last.args.n_results >= 1
    /\ Len(LastKeywordHits) >= last.args.n_results
    /\ ~collection.exists
    /\ Len(last.result) = last.args.n_results

\* C27: when the record store failed to load, search never raises: it
\* returns only vector-derived results (at most n_results of them) if the
\* index holds documents, and the empty list if the index is empty.
C27_UnavailableStoreNeverRaises ==
    (pc = "done" /\ last.op \in SearchOps /\ IsNone(interactions_df)) =>
        /\ ~last.raised
        /\ \A i \in DOMAIN last.result : last.result[i].stage = "vector"
        /\ Len(last.result) <= last.args.n_results
        /\ Len(collection.docs) = 0 => last.result = <<>>

ClaimedPriority(level) ==
    CASE level = "danger" -> 1
      [] level = "warning" -> 2
      [] level = "caution" -> 3
      [] level = "safe" -> 4
      [] OTHER -> 3

ClaimedLabel(level) ==
    IF level \in {"danger", "warning", "caution", "safe"} THEN level ELSE "caution"

\* C28: the projected risk_priority is the priority of the record's
\* risk_level (danger 1, warning 2, caution 3, safe 4) and 3 when the
\* risk_level is not recognised; the same fallback selects the caution
\* emoji, label and colour of a result; every keyword-derived result has
\* risk_priority in {1,2,3,4}.
C28_RiskFallbackIsCaution ==
    /\ \A i \in DOMAIN collection.docs :
          collection.docs[i].risk_priority
              = ClaimedPriority(collection.docs[i].risk_level)
    /\ Returned =>
          \A i \in DOMAIN last.result :
              /\ last.result[i].risk_label = ClaimedLabel(last.result[i].risk_level)
              /\ last.result[i].stage = "keyword" =>
                    /\ last.result[i].risk_priority \in {1, 2, 3, 4}
                    /\ last.result[i].risk_priority
                          = ClaimedPriority(last.result[i].risk_level)

\* a search returned a keyword result of a record with an unrecognised
\* risk_level, and the index holds the document of such a record
C28_Witness ==
    /\ Returned
    /\ \E i \in DOMAIN last.result :
          /\ last.result[i].stage = "keyword"
          /\ last.result[i].risk_level = "unknown"
          /\ last.result[i].risk_priority = 3
          /\ last.result[i].risk_label = "caution"
    /\ \E i \in DOMAIN collection.docs :
          /\ collection.docs[i].risk_level = "unknown"
          /\ collection.docs[i].risk_priority = 3

\* the elements of s at the positions idx, in increasing order of position
AtPositions(s, idx) ==
    [k \in 1..Cardinality(idx) |->
        s[CHOOSE i \in idx : Cardinality({j \in idx : j < i}) = k - 1]]

\* the list before the sort of the path the call in last returned from: the
\* keyword hits in row order, on the fusion path followed by the vector
\* results in index-rank order, less every later entry of a pair
BeforeSort ==
    IF last.queries = 0
    THEN LastKeywordHits
    ELSE LET all == LastKeywordHits
                       \o [h \in DOMAIN last.hits |-> VectorResult(last.hits[h])]
         IN AtPositions(all, {i \in DOMAIN all :
                                 \A j \in 1..(i - 1) :
                                     PairKey(all[j]) # PairKey(all[i])})

\* the sort key of the path the call in last returned from
TieKey(r) ==
    IF last.queries = 0
    THEN <<r.risk_priority, 0 - r.relevance_score>>
    ELSE <<r.risk_priority, r.distance>>

\* the entries of s whose sort key is key, in the order of s
TieGroup(s, key) == SelectSeq(s, LAMBDA r : TieKey(r) = key)

IsPrefix(a, b) == Len(a) <= Len(b) /\ a = SubSeq(b, 1, Len(a))

\* C29: ties are ordered by the stability of the sort: among results with
\* equal sort keys keyword results keep row order and precede vector
\* results, which keep index-rank order; so the same call against the same
\* record store and the same index state returns the same list.
C29_TiesKeepSourceOrder ==
    Returned =>
        /\ LET before == BeforeSort
           IN \A key \in {TieKey(r) : r \in Range(last.result)} :
                 IsPrefix(TieGroup(last.result, key), TieGroup(before, key))
        /\ LET again == Search(interactions_df, last.args.query,
                               last.args.n_results, last.args.drug_filter,
                               last.args.food_filter, last.args.risk_filter,
                               [kind |-> last.kind, hits |-> last.hits])
           IN ~again.raised /\ again.result = last.result

\* a fused list holds a keyword result directly followed by a vector
\* result of another pair with the same risk_priority and distance
C29_Witness ==
    /\ Fused
    /\ \E i, j \in DOMAIN last.result :
          /\ j = i + 1
          /\ last.result[i].stage = "keyword"
          /\ last.result[j].stage = "vector"
          /\ TieKey(last.result[i]) = TieKey(last.result[j])

\* a short-circuit return holds two keyword results of different pairs
\* with the same risk_priority and relevance_score, in row order
KeywordTie ==
    /\ Returned
    /\ last.queries = 0
    /\ \E i, j \in DOMAIN last.result :
          /\ i < j
          /\ PairKey(last.result[i]) # PairKey(last.result[j])
          /\ TieKey(last.result[i]) = TieKey(last.result[j])

\* a fused list holds two vector results with the same risk_priority and
\* distance, in index-rank order
VectorTie ==
    /\ Fused
    /\ \E i, j \in DOMAIN last.result :
          /\ i < j
          /\ last.result[i].stage = "vector"
          /\ last.result[j].stage = "vector"
          /\ TieKey(last.result[i]) = TieKey(last.result[j])

(* ------- the watchlist: get_interactions_for_drugs on large stores ------ *)

\* WatchlistSpec runs get_interactions_for_drugs for one drug over record
\* stores large enough for the n_results=20 of its search to cut: records
\* of the drug asked for (caution), the first of them possibly repeated,
\* followed by records of another drug (danger).

FoodLetters == <<"p", "q", "r", "s", "t">>

\* the i-th of 25 distinct food names, none containing a drug name
WatchFood(i) ==
    <<FoodLetters[((i - 1) \div 5) + 1], FoodLetters[((i - 1) % 5) + 1]>>

\* how many distinct records the drug asked for has, how often its first
\* record is repeated, and how many records the other drug has
OwnCounts == {1, 19, 20, 21}
DupCounts == {0, 2}
ForeignCounts == {0, 20}

WatchStore(own, dups, foreign) ==
    [i \in 1..dups |-> Row(DrugA, WatchFood(1), "warning")]
        \o [i \in 1..own |-> Row(DrugA, WatchFood(i),
                                 IF i = 1 THEN "warning" ELSE "caution")]
        \o [i \in 1..foreign |-> Row(DrugB, WatchFood(i), "danger")]

WatchStores ==
    {WatchStore(own, dups, foreign) :
        own \in OwnCounts, dups \in DupCounts, foreign \in ForeignCounts}

\* the k nearest of the documents docs when the embedding ranks them in
\* index order (or in reverse order), all at distance dist
RankedHits(docs, k, reverse, dist) ==
    LET n == Len(docs)
    IN [i \in 1..Min(k, n) |->
           [doc |-> IF reverse THEN docs[n + 1 - i] ELSE docs[i],
            distance |-> dist]]

\* what the index can do in the one search of a watchlist call
WatchOutcomes(df, coll, a) ==
    IF KeywordSuffices(KeywordResults(df, a.query, a.drug_filter, a.food_filter,
                                      a.risk_filter),
                       a.n_results)
    THEN {[kind |-> "unqueried", hits |-> <<>>]}
    ELSE IF ~coll.exists
    THEN {[kind |-> "fail", hits |-> <<>>]}
    ELSE LET matching ==
                 SelectSeq(coll.docs,
                           LAMBDA d : WhereMatches(d, a.drug_filter,
                                                   a.food_filter, a.risk_filter))
         IN {[kind |-> "ok",
              hits |-> RankedHits(matching, a.n_results * 2, rev, dist)] :
                 rev \in BOOLEAN, dist \in VecDists}
            \cup {[kind |-> "retry",
                   hits |-> RankedHits(coll.docs, a.n_results * 2, rev, dist)] :
                      rev \in BOOLEAN, dist \in VecDists}
            \cup {[kind |-> "fail", hits |-> <<>>]}

\* rag.get_interactions_for_drugs([drug_name], risk_levels)
WatchlistCall ==
    /\ pc = "idle"
    /\ \E drug_name \in Drugs, risk_levels \in RiskLevelArgs :
         LET a == DrugArgs(drug_name, risk_levels)
         IN \E env \in WatchOutcomes(interactions_df, collection, a) :
               LET out == Search(interactions_df, a.query, a.n_results,
                                 a.drug_filter, a.food_filter, a.risk_filter, env)
               IN /\ last' = [op |-> "get_interactions_for_drugs",
                              raised |-> out.raised,
                              result |-> IF out.raised THEN <<>>
                                         ELSE CombineForDrugs(out.result),
                              queries |-> out.queries,
                              risk_levels |-> risk_levels,
                              drug_names |-> <<drug_name>>]
                  /\ interactions_df' =
                        StoreAfterSearch(interactions_df, a.drug_filter,
                                         a.food_filter, a.risk_filter)
    /\ pc' = "done"
    /\ UNCHANGED collection

\* a new engine over an empty persist directory and a loaded CSV
WatchlistInit ==
    /\ interactions_df \in {Some(s) : s \in WatchStores}
    /\ collection = EmptyCollection
    /\ pc = "idle"
    /\ last = NoCall

WatchlistNext ==
    \/ \E force_rebuild \in BOOLEAN, fault \in Faults : Build(force_rebuild, fault)
    \/ WatchlistCall
    \/ Return

WatchlistSpec == WatchlistInit /\ [][WatchlistNext]_vars

\* the records of drug d whose risk_level passes risk_levels
WatchedRecords(d, risk_levels) ==
    {r \in Range(interactions_df[1]) :
        /\ r.drug_name = d
        /\ (~IsNone(risk_levels) /\ Len(risk_levels[1]) > 0)
              => r.risk_level \in Range(risk_levels[1])}

\* C30: with the record store loaded and the index built from it, for each
\* drug d passed to get_interactions_for_drugs whose name has a token,
\* every record of d that passes risk_levels is a keyword hit of the
\* per-drug search; if d has at most 20 such distinct pairs they all appear
\* in the result; if it has more, exactly 20 are returned for d and no
\* omitted record of d is strictly more severe than a returned one; also
\* when the filtered index query raises and is retried without filters.
C30_WatchlistComplete ==
    (pc = "done" /\ last.op = "get_interactions_for_drugs" /\ ~last.raised
        /\ ~IsNone(interactions_df)
        /\ collection = Collection(TRUE, Project(interactions_df[1]))) =>
        \A n \in DOMAIN last.drug_names :
            LET d == last.drug_names[n]
                recs == WatchedRecords(d, last.risk_levels)
                pairs == {PairKey(r) : r \in recs}
                hits == KeywordResults(interactions_df, d, Some(<<d>>), None,
                                       last.risk_levels)
                returned == {x \in Range(last.result) : x.drug_name = d}
            IN Split(Lower(d)) # <<>> =>
                 /\ pairs \subseteq {PairKey(h) : h \in Range(hits)}
                 /\ Cardinality(pairs) <= 20 =>
                       pairs \subseteq {PairKey(x) : x \in returned}
                 /\ Cardinality(pairs) > 20 =>
                       /\ Cardinality(returned) = 20
                       /\ \A r \in recs, x \in returned :
                             PairKey(r) \notin {PairKey(y) : y \in returned}
                                 => RiskPriority(r.risk_level) >= x.risk_priority

====
